---------------------------- MODULE Spec2Model ----------------------------
(***************************************************************************)
(* Model of ex2/CompareSequences.c, part 2: the pairwise global alignment  *)
(* (score table, backtrace, pairwise driver, printing).                    *)
(*                                                                         *)
(* Strings are sequences of one-character strings; C index k of a string   *)
(* is element k+1 of the sequence.  A pointer to a Sequence is its         *)
(* position in the list (NULL is 0); a pointer to a Cell is its <<row,     *)
(* col>> (NULL is <<>>).  The table is a function whose domain is the set  *)
(* of cells that have been written: createTable leaves every cell          *)
(* uninitialised, and reading a cell outside the domain is a read of       *)
(* uninitialised memory.                                                   *)
(***************************************************************************)
EXTENDS Integers, Sequences, FiniteSets, TLC

-----------------------------------------------------------------------------
(* Bounds of the model *)

\* longest sequence value of the pair specifications
MaxLen == 2

\* largest number of sequences in the list of the driver specification
MaxSeqs == 3

\* symbols of the sequence values
Alphabet == {"A", "C"}

\* values of the match, mismatch and gap arguments
MatchVals == {-1, 1, 2}

MismatchVals == {-1, 0, 1}

GapVals == {-2, -1, 0, 1}

\* sequence values and parameters of the driver specification
DriverVals == {<<"A">>, <<"C", "A">>}

DriverParams == {<<2, -1, -2>>}

\* malloc's other result: no block (NULL)
NoBlock == <<"NULL">>

\* what a block fresh from malloc may hold up to its first '\0': nothing
\* (first byte is 0) or some bytes that the program never wrote
UninitStrings == {<<>>, <<"?">>}

-----------------------------------------------------------------------------
(* Program constants *)

SPACE_CHAR == "-"

NEW_LINE == "\n"

\* the char 0 that initializeTable stores as sourceChar
NUL == "0"

NULL == 0

NullCell == <<>>

\* size_t arithmetic wraps; the width is scaled down from 2^64
SizeMod == 65536

MAX(X, Y) == IF X > Y THEN X ELSE Y

\* variant: the third argument (the diagonal score) is left out of the maximum
TERNARY_MAX_WithoutThird(X, Y, Z) == MAX(X, Y)

TERNARY_MAX(X, Y, Z) == MAX(MAX(X, Y), Z)

-----------------------------------------------------------------------------
(* Sequence objects and their list *)

\* the strings of length 1..n over Alphabet
RECURSIVE StringsUpTo(_)
StringsUpTo(n) ==
    IF n = 0 THEN {}
    ELSE LET shorter == StringsUpTo(n - 1)
         IN  {<<a>> : a \in Alphabet} \cup shorter
                \cup {Append(x, a) : x \in shorter, a \in Alphabet}

\* the list parseSeqFile documents: names, values, seqLen = strlen(seqVal),
\* next = the following list element
SequenceList(vals) ==
    [k \in 1..Len(vals) |->
        [seqName |-> k,
         seqVal  |-> vals[k],
         seqLen  |-> Len(vals[k]),
         next    |-> IF k < Len(vals) THEN k + 1 ELSE NULL]]

RECURSIVE ListsOf(_, _)
ListsOf(S, n) ==
    IF n = 0 THEN {<<>>}
    ELSE {Append(l, x) : l \in ListsOf(S, n - 1), x \in S}

VARIABLES
    sequences,   \* the linked list of Sequence objects (main's sequences)
    m, s, g,     \* match, mismatch, gap
    fresh,       \* what malloc may leave in a new block (UninitStrings or zeroes)
    pc,          \* position of the program
    seq1, seq2,  \* calAndPrintScores: the loop pointers
    idx,         \* calAndPrintScores: number of alignments stored
    alignments,  \* calAndPrintScores: the array of alignment strings
    table,       \* compareSequences: the score table
    r, c,        \* fillTable: loop counters
    currCell,    \* calAlignment: current cell
    i, j,        \* calAlignment: indices into seq1Val, seq2Val
    seq1Add, seq2Add,  \* calAlignment: the aligned strings so far
    calIdx,      \* calAlignment: idx
    out,         \* stdout, one element per printf
    calls        \* history: the (seq1, seq2) of every compareSequences call

driverVars == <<sequences, m, s, g, fresh, pc, seq1, seq2, idx, alignments, table,
                r, c, currCell, i, j, seq1Add, seq2Add, calIdx, out, calls>>

getSeqName(seq) == sequences[seq].seqName

getSeqVal(seq) == sequences[seq].seqVal

getSeqLen(seq) == sequences[seq].seqLen

getSeqNext(seq) == sequences[seq].next

\* C indexing of a string
CharAt(str, k) == str[k + 1]


-----------------------------------------------------------------------------
(* Cells and the score table *)

Cell(sourceCell, sourceChar, score) ==
    [sourceCell |-> sourceCell, sourceChar |-> sourceChar, score |-> score]

getScore(cell) == cell.score

getSourceChar(cell) == cell.sourceChar

getSource(cell) == cell.sourceCell

\* the range of int
INT_MAX == 2147483647

INT_MIN == -INT_MAX - 1

\* a + b leaves the range of int
AddOverflows(a, b) ==
    \/ b > 0 /\ a > INT_MAX - b
    \/ b < 0 /\ a < INT_MIN - b

\* a + b in int arithmetic: the sum when it is in range, else the sum reduced
\* modulo 2^32 into the range (what the two's-complement add instruction leaves)
IntAdd(a, b) ==
    IF ~AddOverflows(a, b) THEN a + b
    ELSE IF b > 0 THEN (a + INT_MIN) + (b + INT_MIN)
    ELSE (a - INT_MIN) + (b - INT_MIN)

\* k * b leaves the range of int, for a count k >= 0
RECURSIVE MulOverflows(_, _)
MulOverflows(k, b) ==
    IF k = 0 THEN FALSE
    ELSE \/ MulOverflows(k - 1, b)
         \/ AddOverflows((k - 1) * b, b)

\* (int) k * b in int arithmetic, for a count k >= 0
RECURSIVE IntMul(_, _)
IntMul(k, b) == IF k = 0 THEN 0 ELSE IntAdd(IntMul(k - 1, b), b)

\* variant: reads the diagonal neighbour instead of the one above
calByAbove_ReadsDiagonal(tbl, row, col, gp) ==
    IntAdd(getScore(tbl[<<row - 1, col - 1>>]), gp)

calByAbove(tbl, row, col, gp) == IntAdd(getScore(tbl[<<row - 1, col>>]), gp)

\* variant: the step from the left costs nothing
calByLeft_WithoutGap(tbl, row, col, gp) == getScore(tbl[<<row, col - 1>>])

calByLeft(tbl, row, col, gp) == IntAdd(getScore(tbl[<<row, col - 1>>]), gp)

\* variant: the diagonal step always adds the match weight
calByDiagonal_AlwaysMatch(tbl, row, col, seq1Val, seq2Val, mt, ms) ==
    IntAdd(getScore(tbl[<<row - 1, col - 1>>]), mt)

calByDiagonal(tbl, row, col, seq1Val, seq2Val, mt, ms) ==
    IF CharAt(seq1Val, row - 1) = CharAt(seq2Val, col - 1)
    THEN IntAdd(getScore(tbl[<<row - 1, col - 1>>]), mt)
    ELSE IntAdd(getScore(tbl[<<row - 1, col - 1>>]), ms)

\* variant: the source is tested in the order diagonal, above, left
setCell_AboveBeforeLeft(tbl, row, col, seq1Val, seq2Val, mt, ms, gp) ==
    LET leftScore     == calByLeft(tbl, row, col, gp)
        aboveScore    == calByAbove(tbl, row, col, gp)
        diagonalScore == calByDiagonal(tbl, row, col, seq1Val, seq2Val, mt, ms)
        max           == TERNARY_MAX(leftScore, aboveScore, diagonalScore)
        cell ==
            IF max = diagonalScore
            THEN Cell(<<row - 1, col - 1>>, "D", max)
            ELSE IF max = aboveScore
            THEN Cell(<<row - 1, col>>, "A", max)
            ELSE Cell(<<row, col - 1>>, "L", max)
    IN  (<<row, col>> :> cell) @@ tbl

\* the table after setCell(table, row, col, ...)
setCell(tbl, row, col, seq1Val, seq2Val, mt, ms, gp) ==
    LET leftScore     == calByLeft(tbl, row, col, gp)
        aboveScore    == calByAbove(tbl, row, col, gp)
        diagonalScore == calByDiagonal(tbl, row, col, seq1Val, seq2Val, mt, ms)
        max           == TERNARY_MAX(leftScore, aboveScore, diagonalScore)
        cell ==
            IF max = diagonalScore
            THEN Cell(<<row - 1, col - 1>>, "D", max)
            ELSE IF max = leftScore
            THEN Cell(<<row, col - 1>>, "L", max)
            ELSE IF max = aboveScore
            THEN Cell(<<row - 1, col>>, "A", max)
            ELSE Cell(NullCell, NUL, max)
    IN  (<<row, col>> :> cell) @@ tbl

\* one of setCell's three additions leaves the range of int
setCellOverflows(tbl, row, col, seq1Val, seq2Val, mt, ms, gp) ==
    \/ AddOverflows(getScore(tbl[<<row, col - 1>>]), gp)
    \/ AddOverflows(getScore(tbl[<<row - 1, col>>]), gp)
    \/ AddOverflows(getScore(tbl[<<row - 1, col - 1>>]),
                    IF CharAt(seq1Val, row - 1) = CharAt(seq2Val, col - 1) THEN mt ELSE ms)

\* createTable: rows x cols cells, none of them written
createTable(rows, cols) == [p \in {} |-> Cell(NullCell, NUL, 0)]

\* variant: the first column and row get score g instead of r*g and c*g
initializeTable_GapNotMultiplied(tbl, rows, cols, gp) ==
    LET first == (<<0, 0>> :> Cell(NullCell, NUL, 0))
        col0  == [p \in {<<row, 0>> : row \in 1..(rows - 1)} |->
                     Cell(NullCell, NUL, gp)]
        row0  == [p \in {<<0, col>> : col \in 1..(cols - 1)} |->
                     Cell(NullCell, NUL, gp)]
    IN  row0 @@ col0 @@ first @@ tbl

\* the table after initializeTable: cell (0,0), the first column, the first row
initializeTable(tbl, rows, cols, gp) ==
    LET first == (<<0, 0>> :> Cell(NullCell, NUL, 0))
        col0  == [p \in {<<row, 0>> : row \in 1..(rows - 1)} |->
                     Cell(NullCell, NUL, IntMul(p[1], gp))]
        row0  == [p \in {<<0, col>> : col \in 1..(cols - 1)} |->
                     Cell(NullCell, NUL, IntMul(p[2], gp))]
    IN  row0 @@ col0 @@ first @@ tbl

\* one of initializeTable's products leaves the range of int
initializeTableOverflows(rows, cols, gp) ==
    MulOverflows(rows - 1, gp) \/ MulOverflows(cols - 1, gp)

\* signed overflow is undefined: the addition wraps, or the program traps
OverflowOutcomes(overflows) == IF overflows THEN {"wrapped", "trapped"} ELSE {"exact"}

\* fillTable's two loops from (row, col) on, in the order the code runs them
RECURSIVE fillFrom(_, _, _, _, _, _, _, _, _, _)
fillFrom(tbl, row, col, rows, cols, seq1Val, seq2Val, mt, ms, gp) ==
    IF row >= rows THEN tbl
    ELSE IF col >= cols
    THEN fillFrom(tbl, row + 1, 1, rows, cols, seq1Val, seq2Val, mt, ms, gp)
    ELSE fillFrom(setCell(tbl, row, col, seq1Val, seq2Val, mt, ms, gp),
                  row, col + 1, rows, cols, seq1Val, seq2Val, mt, ms, gp)

\* the table fillTable leaves for two sequence values
fillTable(seq1Val, seq2Val, mt, ms, gp) ==
    LET rows == Len(seq1Val) + 1
        cols == Len(seq2Val) + 1
    IN  fillFrom(initializeTable(createTable(rows, cols), rows, cols, gp),
                 1, 1, rows, cols, seq1Val, seq2Val, mt, ms, gp)

-----------------------------------------------------------------------------
(* The backtrace *)

\* variant: the index is left where it was
Dec_NoStep(x) == x % SizeMod

\* size_t decrement
Dec(x) == (x - 1) % SizeMod

\* variant: the gap of a step from the left goes to the second string
analyzeSourceChar_GapInSecond(sourceChar, seq1Final, seq2Final, seq1Val, seq2Val, ii, jj) ==
    IF sourceChar = "D"
    THEN [seq1Final |-> <<CharAt(seq1Val, ii)>>,
          seq2Final |-> <<CharAt(seq2Val, jj)>>,
          i |-> Dec(ii), j |-> Dec(jj)]
    ELSE IF sourceChar = "L"
    THEN [seq1Final |-> <<CharAt(seq2Val, jj)>>,
          seq2Final |-> <<SPACE_CHAR>>,
          i |-> ii, j |-> Dec(jj)]
    ELSE IF sourceChar = "A"
    THEN [seq1Final |-> <<CharAt(seq1Val, ii)>>,
          seq2Final |-> <<SPACE_CHAR>>,
          i |-> Dec(ii), j |-> jj]
    ELSE [seq1Final |-> seq1Final, seq2Final |-> seq2Final, i |-> ii, j |-> jj]

\* analyzeSourceChar: the two one-character strings it leaves in seq1Final and
\* seq2Final (left as malloc gave them when sourceChar is none of D, L, A),
\* and the new *i, *j
analyzeSourceChar(sourceChar, seq1Final, seq2Final, seq1Val, seq2Val, ii, jj) ==
    IF sourceChar = "D"
    THEN [seq1Final |-> <<CharAt(seq1Val, ii)>>,
          seq2Final |-> <<CharAt(seq2Val, jj)>>,
          i |-> Dec(ii), j |-> Dec(jj)]
    ELSE IF sourceChar = "L"
    THEN [seq1Final |-> <<SPACE_CHAR>>,
          seq2Final |-> <<CharAt(seq2Val, jj)>>,
          i |-> ii, j |-> Dec(jj)]
    ELSE IF sourceChar = "A"
    THEN [seq1Final |-> <<CharAt(seq1Val, ii)>>,
          seq2Final |-> <<SPACE_CHAR>>,
          i |-> Dec(ii), j |-> jj]
    ELSE [seq1Final |-> seq1Final, seq2Final |-> seq2Final, i |-> ii, j |-> jj]

\* createAlignment: <seq1Aligned>\n<seq2Aligned>\n (the buffer of 2*paramLen+1
\* chars holds the strings of the model: each is at most paramLen-1 long)
createAlignment(paramLen, seq1Aligned, seq2Aligned) ==
    seq1Aligned \o <<NEW_LINE>> \o seq2Aligned \o <<NEW_LINE>>

\* calAlignment's loop from cell on, as the code runs it; u1 and u2 are what
\* malloc left in seq1Final and seq2Final
RECURSIVE calAlignmentFrom(_, _, _, _, _, _, _, _, _, _, _)
calAlignmentFrom(tbl, cell, ii, jj, add1, add2, n, seq1Val, seq2Val, u1, u2) ==
    IF cell = NullCell THEN createAlignment(n, add1, add2)
    ELSE LET res == analyzeSourceChar(getSourceChar(tbl[cell]), u1, u2,
                                      seq1Val, seq2Val, ii, jj)
         IN  calAlignmentFrom(tbl, getSource(tbl[cell]), res.i, res.j,
                              res.seq1Final \o add1, res.seq2Final \o add2,
                              n + 1, seq1Val, seq2Val, u1, u2)

\* the alignment calAlignment returns for two sequence values and their table
calAlignment(seq1Val, seq2Val, tbl, u1, u2) ==
    calAlignmentFrom(tbl, <<Len(seq1Val), Len(seq2Val)>>,
                     Dec(Len(seq1Val)), Dec(Len(seq2Val)), <<>>, <<>>, 1,
                     seq1Val, seq2Val, u1, u2)

-----------------------------------------------------------------------------
(* calAndPrintScores *)

\* the number of char* that realloc(alignments, sizeof(void *)) makes room for
AllocSlots == 1

\* what writing alignments[k] can do: inside the block it stores; past the
\* end of the block it either lands in memory nobody else uses or corrupts
\* the heap, and the process is aborted
WriteOutcomes(k) == IF k < AllocSlots THEN {"stored"} ELSE {"stored", "abort"}

\* variant: the inner loop starts at the outer loop's sequence itself
NextPair_InnerFromSelf(sq1, sq2) ==
    IF getSeqNext(sq2) # NULL
    THEN [seq1 |-> sq1, seq2 |-> getSeqNext(sq2), more |-> TRUE]
    ELSE IF getSeqNext(getSeqNext(sq1)) # NULL
    THEN [seq1 |-> getSeqNext(sq1), seq2 |-> getSeqNext(sq1), more |-> TRUE]
    ELSE [seq1 |-> getSeqNext(sq1), seq2 |-> NULL, more |-> FALSE]

\* calAndPrintScores' loop control after one compareSequences call: the inner
\* loop's seq2 = getSeqNext(seq2); when it ends, the outer loop's
\* seq1 = getSeqNext(seq1), its test, and seq2 = getSeqNext(seq1)
NextPair(sq1, sq2) ==
    IF getSeqNext(sq2) # NULL
    THEN [seq1 |-> sq1, seq2 |-> getSeqNext(sq2), more |-> TRUE]
    ELSE IF getSeqNext(getSeqNext(sq1)) # NULL
    THEN [seq1 |-> getSeqNext(sq1),
          seq2 |-> getSeqNext(getSeqNext(sq1)), more |-> TRUE]
    ELSE [seq1 |-> getSeqNext(sq1), seq2 |-> NULL, more |-> FALSE]

-----------------------------------------------------------------------------
(* main of CompareSequences: arguments, stringToInt, parseSeqFile *)

VARIABLES
    argc,        \* main: number of arguments, program name included
    argv,        \* main: argv[2], argv[3], argv[4] when argc = 5
    fileOpens,   \* whether fopen(argv[1]) returns a file
    lines,       \* the lines of the file that fgets has not returned yet
    toStart,     \* parseSeqFile: a header line may start a new sequence
    seqNum,      \* parseSeqFile: number of sequences created
    isInteger,   \* main: the flag the three stringToInt calls share
    errs,        \* stderr, one element per fprintf
    exitCode     \* the status the process ended with, Running before that

mainVars == <<argc, argv, fileOpens, lines, toStart, seqNum, isInteger, errs, exitCode>>

Running == "running"

EXIT_FAILURE == 1

USAGE_ERR_MSG == "Usage: CompareSequences <sequence file> <match> <mismatch> <gap>"

SEQ_NUM_ERR_MSG == "Error: Number of Sequences in file < 2."

\* main has not run (the state is that of a direct call of calAndPrintScores)
MainIdle ==
    /\ argc = 0
    /\ argv = <<>>
    /\ fileOpens = FALSE
    /\ lines = <<>>
    /\ toStart = 1
    /\ seqNum = 0
    /\ isInteger = 1
    /\ errs = <<>>
    /\ exitCode = Running

\* the calculator of ex3: the stack, and infixToPostfix with evaluateExp
VARIABLES
    infix,       \* the token array infixToPostfix is given
    inIdx,       \* infixToPostfix: idx, the number of tokens handled
    postfix,     \* infixToPostfix: the token array built so far
    stack,       \* the stack (postfixStack in infixToPostfix)
    headData,    \* the buffer pop copies into
    toFree,      \* infixToPostfix: what the pointer toFree refers to
    evaluation,  \* main: the value evaluateExp returned, NoValue before that
    hist         \* history: the push and pop calls made on the stack

calcVars == <<infix, inIdx, postfix, stack, headData, toFree, evaluation, hist>>

NoValue == "none"

\* stackAlloc; elementSize counts the cells of an element (one char, one int)
stackAlloc(elementSize) == [top |-> <<>>, elementSize |-> elementSize]

\* the calculator has not run
CalcIdle ==
    /\ infix = <<>>
    /\ inIdx = 0
    /\ postfix = <<>>
    /\ stack = stackAlloc(1)
    /\ headData = <<>>
    /\ toFree = "null"
    /\ evaluation = NoValue
    /\ hist = <<>>

\* AnalyzeProtein of ex1
VARIABLES
    pdbFiles,    \* main: the files named by argv[1], argv[2], ...
    fileIdx      \* main: i, the argument the loop is at

proteinVars == <<pdbFiles, fileIdx>>

\* AnalyzeProtein has not run
ProteinIdle ==
    /\ pdbFiles = <<>>
    /\ fileIdx = 1

\* the variables of the programs other than calAndPrintScores
outsideDriver == <<mainVars, calcVars, proteinVars>>

\* the variables of the programs other than main of CompareSequences
outsideMain == <<calcVars, proteinVars>>

vars == <<driverVars, outsideDriver>>

\* the variables of calAndPrintScores but for pc and out, of main but for errs
driverData == <<sequences, m, s, g, fresh, seq1, seq2, idx, alignments, table,
                r, c, currCell, i, j, seq1Add, seq2Add, calIdx, calls>>

mainData == <<argc, argv, fileOpens, lines, toStart, seqNum, isInteger, exitCode>>

OutsideDriverIdle == MainIdle /\ CalcIdle /\ ProteinIdle

\* the state on entry to calAndPrintScores' first compareSequences call
Start(vals, params, fr) ==
    /\ OutsideDriverIdle
    /\ sequences = SequenceList(vals)
    /\ m = params[1]
    /\ s = params[2]
    /\ g = params[3]
    /\ fresh = fr
    /\ pc = "call"
    /\ seq1 = 1
    /\ seq2 = 2
    /\ idx = 0
    /\ alignments = <<>>
    /\ table = createTable(0, 0)
    /\ r = 0
    /\ c = 0
    /\ currCell = NullCell
    /\ i = 0
    /\ j = 0
    /\ seq1Add = <<>>
    /\ seq2Add = <<>>
    /\ calIdx = 0
    /\ out = <<>>
    /\ calls = <<>>

Params == MatchVals \X MismatchVals \X GapVals

\* two sequences, any values, any parameters, malloc leaving anything
Init ==
    \E A \in StringsUpTo(MaxLen), B \in StringsUpTo(MaxLen), p \in Params :
        Start(<<A, B>>, p, UninitStrings)

\* the same with every new block zero-filled
InitZeroed ==
    \E A \in StringsUpTo(MaxLen), B \in StringsUpTo(MaxLen), p \in Params :
        Start(<<A, B>>, p, {<<>>})

\* 2..MaxSeqs sequences
InitDriver ==
    \E n \in 2..MaxSeqs : \E vals \in ListsOf(DriverVals, n), p \in DriverParams :
        Start(vals, p, UninitStrings)

\* the two sequences of the documented scenario, in either order
ExampleVals == {<<"G", "C", "A", "T", "G", "C", "U">>,
                <<"G", "A", "T", "T", "A", "C", "A">>}

\* weights at the ends of the range of int
BigVals == {INT_MAX, INT_MIN, 1073741824, -1, 1}

InitOverflow ==
    \E A \in StringsUpTo(MaxLen), B \in StringsUpTo(MaxLen) :
        \E mt \in {1, INT_MAX}, ms \in {-1, INT_MIN}, gp \in BigVals :
            Start(<<A, B>>, <<mt, ms, gp>>, {<<>>})

\* two sequences, and every malloc may also fail
InitNoMemory ==
    \E A \in StringsUpTo(MaxLen), B \in StringsUpTo(MaxLen) :
        Start(<<A, B>>, <<1, -1, -1>>, UninitStrings \cup {NoBlock})

InitExample ==
    \E A \in ExampleVals, B \in ExampleVals : Start(<<A, B>>, <<1, -1, -1>>, UninitStrings)

\* compareSequences up to fillTable's initializeTable
CallCompareSequences ==
    /\ pc = "call"
    /\ LET rows == getSeqLen(seq1) + 1
           cols == getSeqLen(seq2) + 1
       IN  \E block \in fresh :
           \E outcome \in OverflowOutcomes(initializeTableOverflows(rows, cols, g)) :
               IF block = NoBlock
               THEN /\ table' = createTable(rows, cols)
                    /\ pc' = "nullWrite"
               ELSE IF outcome = "trapped"
               THEN /\ table' = createTable(rows, cols)
                    /\ pc' = "crashed"
               ELSE /\ table' = initializeTable(createTable(rows, cols), rows, cols, g)
                    /\ pc' = "fill"
    /\ r' = 1
    /\ c' = 1
    /\ calls' = Append(calls, <<seq1, seq2>>)
    /\ UNCHANGED outsideDriver
    /\ UNCHANGED <<sequences, m, s, g, fresh, seq1, seq2, idx, alignments,
                   currCell, i, j, seq1Add, seq2Add, calIdx, out>>

\* one iteration of fillTable's inner loop
FillTableStep ==
    /\ pc = "fill"
    /\ LET rows == getSeqLen(seq1) + 1
           cols == getSeqLen(seq2) + 1
       IN  \E outcome \in OverflowOutcomes(setCellOverflows(table, r, c, getSeqVal(seq1),
                                                              getSeqVal(seq2), m, s, g)) :
               IF outcome = "trapped"
               THEN /\ pc' = "crashed"
                    /\ UNCHANGED <<table, r, c>>
               ELSE /\ table' = setCell(table, r, c, getSeqVal(seq1), getSeqVal(seq2), m, s, g)
                    /\ IF c + 1 < cols
                       THEN /\ c' = c + 1
                            /\ r' = r
                            /\ pc' = "fill"
                       ELSE /\ c' = 1
                            /\ r' = r + 1
                            /\ pc' = IF r + 1 < rows THEN "fill" ELSE "score"
    /\ UNCHANGED outsideDriver
    /\ UNCHANGED <<sequences, m, s, g, fresh, seq1, seq2, idx, alignments,
                   currCell, i, j, seq1Add, seq2Add, calIdx, out, calls>>

\* compareSequences' printScore, and calAlignment up to its loop
PrintScore ==
    /\ pc = "score"
    /\ LET rows == getSeqLen(seq1) + 1
           cols == getSeqLen(seq2) + 1
       IN  /\ out' = Append(out, [kind     |-> "score",
                                  pair     |-> Len(calls),
                                  seq1Name |-> getSeqName(seq1),
                                  seq2Name |-> getSeqName(seq2),
                                  score    |-> getScore(table[<<rows - 1, cols - 1>>])])
           /\ currCell' = <<rows - 1, cols - 1>>
    /\ i' = Dec(getSeqLen(seq1))
    /\ j' = Dec(getSeqLen(seq2))
    /\ seq1Add' = <<>>
    /\ seq2Add' = <<>>
    /\ calIdx' = 1
    /\ pc' = "trace"
    /\ UNCHANGED outsideDriver
    /\ UNCHANGED <<sequences, m, s, g, fresh, seq1, seq2, idx, alignments,
                   table, r, c, calls>>

\* one iteration of calAlignment's loop
CalAlignmentStep ==
    /\ pc = "trace"
    /\ currCell # NullCell
    /\ \E u1 \in fresh, u2 \in fresh :
          LET sourceChar == getSourceChar(table[currCell])
              res == analyzeSourceChar(sourceChar, u1, u2, getSeqVal(seq1),
                                       getSeqVal(seq2), i, j)
          IN  IF u1 = NoBlock \/ u2 = NoBlock
              THEN /\ pc' = "nullWrite"
                   /\ UNCHANGED <<seq1Add, seq2Add, i, j, currCell, calIdx>>
              ELSE /\ seq1Add' = res.seq1Final \o seq1Add
                   /\ seq2Add' = res.seq2Final \o seq2Add
                   /\ i' = res.i
                   /\ j' = res.j
                   /\ currCell' = getSource(table[currCell])
                   /\ calIdx' = calIdx + 1
                   /\ pc' = pc
    /\ UNCHANGED outsideDriver
    /\ UNCHANGED <<sequences, m, s, g, fresh, seq1, seq2, idx, alignments,
                   table, r, c, out, calls>>

\* calAlignment's createAlignment, compareSequences' eraseTable and return,
\* and calAndPrintScores' storing of the alignment and loop control
ReturnAlignment ==
    /\ pc = "trace"
    /\ currCell = NullCell
    /\ table' = createTable(0, 0)
    /\ \E block \in fresh, outcome \in WriteOutcomes(idx) :
          IF block = NoBlock
          THEN /\ pc' = "nullWrite"
               /\ UNCHANGED <<alignments, idx, seq1, seq2>>
          ELSE IF outcome = "stored"
          THEN LET nxt == NextPair(seq1, seq2)
               IN  /\ alignments' =
                          Append(alignments, createAlignment(calIdx, seq1Add, seq2Add))
                   /\ idx' = idx + 1
                   /\ seq1' = nxt.seq1
                   /\ seq2' = nxt.seq2
                   /\ pc' = IF nxt.more THEN "call" ELSE "print"
          ELSE /\ pc' = "crashed"
               /\ UNCHANGED <<alignments, idx, seq1, seq2>>
    /\ UNCHANGED outsideDriver
    /\ UNCHANGED <<sequences, m, s, g, fresh, r, c, currCell, i, j,
                   seq1Add, seq2Add, calIdx, out, calls>>

\* printAlignment: prints and frees the idx alignments
PrintAlignment ==
    /\ pc = "print"
    /\ out' = out \o [k \in 1..idx |->
                         [kind |-> "alignment", pair |-> k, text |-> alignments[k]]]
    /\ alignments' = <<>>
    /\ pc' = "done"
    /\ UNCHANGED outsideDriver
    /\ UNCHANGED <<sequences, m, s, g, fresh, seq1, seq2, idx, table, r, c,
                   currCell, i, j, seq1Add, seq2Add, calIdx, calls>>

Next ==
    \/ CallCompareSequences
    \/ FillTableStep
    \/ PrintScore
    \/ CalAlignmentStep
    \/ ReturnAlignment
    \/ PrintAlignment

Spec == Init /\ [][Next]_vars

SpecZeroed == InitZeroed /\ [][Next]_vars

SpecExample == InitExample /\ [][Next]_vars

SpecOverflow == InitOverflow /\ [][Next]_vars

SpecNoMemory == InitNoMemory /\ [][Next]_vars

-----------------------------------------------------------------------------
(* main of CompareSequences, up to its call of calAndPrintScores *)

HEADER_PREFIX == ">"

Digits == {"0", "1", "2", "3", "4", "5", "6", "7", "8", "9"}

DigitVal(ch) == CHOOSE k \in 0..9 : <<"0", "1", "2", "3", "4", "5", "6", "7", "8", "9">>[k + 1] = ch

\* strtol: leading white space is skipped
RECURSIVE DropSpaces(_)
DropSpaces(str) ==
    IF str # <<>> /\ Head(str) = " " THEN DropSpaces(Tail(str)) ELSE str

\* strtol: the number of leading decimal digits
RECURSIVE DigitCount(_)
DigitCount(str) ==
    IF str # <<>> /\ Head(str) \in Digits THEN 1 + DigitCount(Tail(str)) ELSE 0

\* strtol: the value of a string of digits, after the value acc of the digits before it
RECURSIVE DigitsValue(_, _)
DigitsValue(str, acc) ==
    IF str = <<>> THEN acc
    ELSE DigitsValue(Tail(str), acc * 10 + DigitVal(Head(str)))

\* strtol(str, &remaining, 10) for strings whose value fits a long: white
\* space, an optional sign, digits; with no digit nothing is consumed
strtol(str) ==
    LET body     == DropSpaces(str)
        signed   == body # <<>> /\ Head(body) \in {"+", "-"}
        digitsOn == IF signed THEN Tail(body) ELSE body
        n        == DigitCount(digitsOn)
        value    == DigitsValue(SubSeq(digitsOn, 1, n), 0)
    IN  IF n = 0
        THEN [result |-> 0, remaining |-> str]
        ELSE [result    |-> IF signed /\ Head(body) = "-" THEN -value ELSE value,
              remaining |-> SubSeq(digitsOn, n + 1, Len(digitsOn))]

\* stringToInt: the converted value, and the flag after the call
stringToInt(str, isInt) ==
    [result    |-> strtol(str).result,
     isInteger |-> IF strtol(str).remaining # <<>> THEN 0 ELSE isInt]

\* what malloc may leave in the seqLen field that initializeSeq never sets
UninitSizes == {0, 5}

\* initializeSeq, with setSeqName; allocated is the size in bytes of the block
\* seqVal points to (0 while seqVal is NULL)
initializeSeq(name, len) ==
    [seqName |-> name, seqVal |-> NoBlock, seqLen |-> len, next |-> NULL,
     allocated |-> 0]

\* setSeqLen
setSeqLen(seq, len) == [seq EXCEPT !.seqLen = (seq.seqLen + len) % SizeMod]

\* setSeqVal when the strcpy stays in, or does no harm beyond, the block
setSeqVal(seq, val) ==
    setSeqLen([seq EXCEPT !.seqVal = IF seq.seqVal = NoBlock THEN val ELSE seq.seqVal \o val,
                          !.allocated = IF seq.seqVal = NoBlock THEN Len(val) + 1 ELSE @],
              Len(val))

\* setSeqVal's strcpy behind the end of a block that was never grown
AppendOutcomes(seq) == IF seq.seqVal = NoBlock THEN {"stored"} ELSE {"stored", "abort"}

\* setSeqNext(curr, seq)
setSeqNext(list) ==
    IF list = <<>> THEN list ELSE [list EXCEPT ![Len(list)].next = Len(list) + 1]

DriverIdle ==
    /\ seq1 = 1
    /\ seq2 = 2
    /\ idx = 0
    /\ alignments = <<>>
    /\ table = createTable(0, 0)
    /\ r = 0
    /\ c = 0
    /\ currCell = NullCell
    /\ i = 0
    /\ j = 0
    /\ seq1Add = <<>>
    /\ seq2Add = <<>>
    /\ calIdx = 0
    /\ out = <<>>
    /\ calls = <<>>

\* the lines a sequence file is made of, without their line feed
FileLines == {<<">", "a">>, <<">", "b">>, <<"A">>, <<"C", "A">>, <<>>}

MaxLines == 4

DriverFile == <<<<">", "a">>, <<"A">>, <<">", "b">>, <<"C", "A">>>>

\* argument strings: ints, and strings that are no ints
ArgStrings == {<<"1">>, <<"-", "1">>, <<"+", "2">>, <<"1", "0">>, <<>>, <<" ", "1">>,
               <<"1", "x">>, <<"x">>, <<"-">>, <<"1", " ">>}

MainStart(n, args, opens, file) ==
    /\ DriverIdle
    /\ sequences = <<>>
    /\ m = 0
    /\ s = 0
    /\ g = 0
    /\ fresh = UninitStrings
    /\ pc = "main"
    /\ argc = n
    /\ argv = args
    /\ fileOpens = opens
    /\ lines = file
    /\ toStart = 1
    /\ seqNum = 0
    /\ isInteger = 1
    /\ errs = <<>>
    /\ exitCode = Running
    /\ CalcIdle
    /\ ProteinIdle

InitMain ==
    \/ \E a2 \in ArgStrings, a3 \in ArgStrings, a4 \in ArgStrings, opens \in BOOLEAN :
           MainStart(5, <<a2, a3, a4>>, opens, DriverFile)
    \/ \E n \in {1, 4, 6} : MainStart(n, <<>>, TRUE, DriverFile)
    \/ \E n \in 0..MaxLines : \E file \in ListsOf(FileLines, n) :
           MainStart(5, <<<<"1">>, <<"-", "1">>, <<"-", "1">>>>, TRUE, file)

\* main up to parseSeqFile: argc, fopen, the three stringToInt calls
MainArgs ==
    /\ pc = "main"
    /\ IF argc = 5 /\ fileOpens
       THEN LET match    == stringToInt(argv[1], 1)
                misMatch == stringToInt(argv[2], match.isInteger)
                gap      == stringToInt(argv[3], misMatch.isInteger)
            IN  /\ m' = match.result
                /\ s' = misMatch.result
                /\ g' = gap.result
                /\ isInteger' = gap.isInteger
                /\ IF gap.isInteger # 0
                   THEN /\ pc' = "parse"
                        /\ UNCHANGED <<errs, exitCode>>
                   ELSE /\ errs' = Append(errs, USAGE_ERR_MSG)
                        /\ exitCode' = EXIT_FAILURE
                        /\ pc' = "exited"
       ELSE /\ errs' = Append(errs, USAGE_ERR_MSG)
            /\ exitCode' = EXIT_FAILURE
            /\ pc' = "exited"
            /\ UNCHANGED <<m, s, g, isInteger>>
    /\ UNCHANGED outsideMain
    /\ UNCHANGED <<argc, argv, fileOpens, lines, toStart, seqNum>>
    /\ UNCHANGED <<sequences, fresh, seq1, seq2, idx, alignments, table,
                   r, c, currCell, i, j, seq1Add, seq2Add, calIdx, out, calls>>

\* one iteration of parseSeqFile's loop, with the fgets that follows it
ParseLine ==
    /\ pc = "parse"
    /\ lines # <<>>
    /\ lines' = Tail(lines)
    /\ LET buff == Head(lines)
       IN  IF toStart # 0 /\ buff # <<>> /\ Head(buff) = HEADER_PREFIX
           THEN IF Tail(buff) = <<>>
                THEN /\ pc' = "crashed"
                     /\ UNCHANGED <<sequences, seqNum, toStart>>
                ELSE \E len \in UninitSizes :
                        /\ sequences' = Append(setSeqNext(sequences),
                                               initializeSeq(Tail(buff), len))
                        /\ seqNum' = seqNum + 1
                        /\ toStart' = 0
                        /\ pc' = pc
           ELSE IF buff # <<>>
           THEN IF sequences = <<>>
                THEN /\ pc' = "crashed"
                     /\ UNCHANGED <<sequences, seqNum, toStart>>
                ELSE \E outcome \in AppendOutcomes(sequences[Len(sequences)]) :
                        IF outcome = "stored"
                        THEN /\ sequences' =
                                    [sequences EXCEPT ![Len(sequences)] = setSeqVal(@, buff)]
                             /\ toStart' = 1
                             /\ pc' = pc
                             /\ UNCHANGED seqNum
                        ELSE /\ pc' = "crashed"
                             /\ UNCHANGED <<sequences, seqNum, toStart>>
           ELSE UNCHANGED <<sequences, seqNum, toStart, pc>>
    /\ UNCHANGED outsideMain
    /\ UNCHANGED <<argc, argv, fileOpens, isInteger, errs, exitCode>>
    /\ UNCHANGED <<m, s, g, fresh, seq1, seq2, idx, alignments, table,
                   r, c, currCell, i, j, seq1Add, seq2Add, calIdx, out, calls>>

\* variant: a single sequence is enough to go on
MainCheck_AcceptsOneSequence ==
    /\ pc = "parse"
    /\ lines = <<>>
    /\ IF seqNum < 1
       THEN /\ errs' = Append(errs, SEQ_NUM_ERR_MSG)
            /\ exitCode' = EXIT_FAILURE
            /\ pc' = "exited"
       ELSE /\ pc' = "call"
            /\ UNCHANGED <<errs, exitCode>>
    /\ UNCHANGED outsideMain
    /\ UNCHANGED <<argc, argv, fileOpens, lines, toStart, seqNum, isInteger>>
    /\ UNCHANGED <<sequences, m, s, g, fresh, seq1, seq2, idx, alignments, table,
                   r, c, currCell, i, j, seq1Add, seq2Add, calIdx, out, calls>>

\* main after parseSeqFile: the test of seqNum, then the call of calAndPrintScores
MainCheck ==
    /\ pc = "parse"
    /\ lines = <<>>
    /\ IF seqNum < 2
       THEN /\ errs' = Append(errs, SEQ_NUM_ERR_MSG)
            /\ exitCode' = EXIT_FAILURE
            /\ pc' = "exited"
       ELSE /\ pc' = "call"
            /\ UNCHANGED <<errs, exitCode>>
    /\ UNCHANGED outsideMain
    /\ UNCHANGED <<argc, argv, fileOpens, lines, toStart, seqNum, isInteger>>
    /\ UNCHANGED <<sequences, m, s, g, fresh, seq1, seq2, idx, alignments, table,
                   r, c, currCell, i, j, seq1Add, seq2Add, calIdx, out, calls>>

NextMain == MainArgs \/ ParseLine \/ MainCheck

SpecMain == InitMain /\ [][NextMain]_vars

-----------------------------------------------------------------------------
(* The stack of ex3 *)

MEM_SEG_ERR == "Error in memory allocation."

STACK_EMPTY_MSG == "The stack is empty"

\* push's two malloc calls: both give a block, or one of them gives NULL
MallocResults == {"block", "null"}

\* push when both allocations succeed: a node with a copy of data on top
push(stk, data) ==
    [stk EXCEPT !.top = <<SubSeq(data, 1, stk.elementSize)>> \o @]

\* isEmptyStack
isEmptyStack(stk) == stk.top = <<>>

\* variant: the top is copied but the node stays on the stack
pop_KeepsNode(stk, hd) ==
    IF stk.top = <<>>
    THEN [stack |-> stk, headData |-> hd, empty |-> TRUE]
    ELSE [stack    |-> stk,
          headData |-> Head(stk.top) \o SubSeq(hd, stk.elementSize + 1, Len(hd)),
          empty    |-> FALSE]

\* pop: the stack and the buffer after the call, and whether the message is printed
pop(stk, hd) ==
    IF stk.top = <<>>
    THEN [stack |-> stk, headData |-> hd, empty |-> TRUE]
    ELSE [stack    |-> [stk EXCEPT !.top = Tail(@)],
          headData |-> Head(stk.top) \o SubSeq(hd, stk.elementSize + 1, Len(hd)),
          empty    |-> FALSE]

\* peek on a stack that is not empty: a new block of elementSize + 1 cells,
\* the last of which is never written and holds u
peek(stk, u) == Head(stk.top) \o <<u>>

\* the elements pushed, and what a caller's buffer may hold before the first pop
StackData == {"a", "b"}

MaxOps == 4

\* an empty stack, and the caller's buffer for pop holding anything
InitStack ==
    /\ MainIdle
    /\ ProteinIdle
    /\ infix = <<>>
    /\ inIdx = 0
    /\ postfix = <<>>
    /\ stack = stackAlloc(1)
    /\ \E d \in StackData \cup {"?"} : headData = <<d>>
    /\ toFree = "null"
    /\ evaluation = NoValue
    /\ hist = <<>>
    /\ DriverIdle
    /\ sequences = <<>>
    /\ m = 0
    /\ s = 0
    /\ g = 0
    /\ fresh = UninitStrings
    /\ pc = "stack"

\* a call of push
Push ==
    /\ pc = "stack"
    /\ Len(hist) < MaxOps
    /\ \E d \in StackData, node \in MallocResults :
          /\ stack' = IF node = "block" THEN push(stack, <<d>>) ELSE stack
          /\ hist' = Append(hist, [op |-> "push", data |-> <<d>>, done |-> node = "block"])
    /\ out' = Append(out, MEM_SEG_ERR)
    /\ UNCHANGED <<infix, inIdx, postfix, headData, toFree, evaluation>>
    /\ UNCHANGED <<driverData, mainData, proteinVars, pc, errs>>

\* a call of pop
Pop ==
    /\ pc = "stack"
    /\ Len(hist) < MaxOps
    /\ LET res == pop(stack, headData)
       IN  /\ stack' = res.stack
           /\ headData' = res.headData
           /\ errs' = IF res.empty THEN Append(errs, STACK_EMPTY_MSG) ELSE errs
           /\ hist' = Append(hist, [op |-> "pop", data |-> res.headData, done |-> ~res.empty])
    /\ UNCHANGED <<infix, inIdx, postfix, toFree, evaluation>>
    /\ UNCHANGED <<driverData, mainData, proteinVars, pc, out>>

NextStack == Push \/ Pop

SpecStack == InitStack /\ [][NextStack]_vars

-----------------------------------------------------------------------------
(* The calculator of ex3: tokens, infixToPostfix, evaluateExp *)

Operand == 1

Operator == 2

Left_Parenthesis == 3

Right_Parenthesis == 4

\* initializeToken when its allocations succeed: size chars of data, and the type
initializeToken(data, size, type) == [data |-> SubSeq(data, 1, size), type |-> type]

cloneToken(other) == initializeToken(other.data, Len(other.data), other.type)

getType(token) == token.type

getData(token) == token.data

parseType(ch) ==
    IF ch = "(" THEN Left_Parenthesis
    ELSE IF ch = ")" THEN Right_Parenthesis
    ELSE IF ch \in {"+", "-", "/", "*", "^"} THEN Operator
    ELSE Operand

\* expToInfix: one token per maximal run of digits and per other char
RECURSIVE expToInfix(_)
expToInfix(exp) ==
    IF exp = <<>> THEN <<>>
    ELSE LET size == IF Head(exp) \in Digits THEN DigitCount(exp) ELSE 1
         IN  <<initializeToken(exp, size, parseType(Head(exp)))>>
                 \o expToInfix(SubSeq(exp, size + 1, Len(exp)))

precedence(operatorChar) ==
    IF operatorChar \in {"+", "-"} THEN 1
    ELSE IF operatorChar \in {"*", "/"} THEN 2
    ELSE IF operatorChar = "^" THEN 3
    ELSE -1

\* strcmp(str, "(") == 0 for a two-byte buffer
IsLeftParenthesisString(str) == str[1] = "(" /\ str[2] = NUL

\* the while loop of infixToPostfix's Operator case, on state
\* st = [stack, headData, postfix]: it tests headData, not the top of the stack
RECURSIVE popWhilePrecedes(_, _)
popWhilePrecedes(st, currChar) ==
    IF /\ ~isEmptyStack(st.stack)
       /\ ~IsLeftParenthesisString(st.headData)
       /\ precedence(currChar) <= precedence(st.headData[1])
    THEN LET res == pop(st.stack, st.headData)
         IN  popWhilePrecedes(
                 [stack    |-> res.stack,
                  headData |-> res.headData,
                  postfix  |-> Append(st.postfix, initializeToken(res.headData, 1, Operator))],
                 currChar)
    ELSE st

\* the loop that ends infixToPostfix: every element left is popped and appended
RECURSIVE popAll(_)
popAll(st) ==
    IF isEmptyStack(st.stack) THEN st
    ELSE LET res == pop(st.stack, st.headData)
         IN  popAll([stack    |-> res.stack,
                     headData |-> res.headData,
                     postfix  |-> Append(st.postfix, initializeToken(res.headData, 1, Operator))])

\* a / b in int arithmetic, b not 0
divide(a, b) ==
    LET abs(x) == IF x < 0 THEN -x ELSE x
        q == abs(a) \div abs(b)
    IN  IF (a < 0) = (b < 0) THEN q ELSE -q

\* (int) pow(a, b), b >= 0
RECURSIVE power(_, _)
power(a, b) == IF b = 0 THEN 1 ELSE a * power(a, b - 1)

computeRes(a, b, op) ==
    IF op = "+" THEN a + b
    ELSE IF op = "-" THEN a - b
    ELSE IF op = "*" THEN a * b
    ELSE IF op = "/" THEN divide(a, b)
    ELSE IF op = "^" THEN power(a, b)
    ELSE 0

\* evaluateExp from token k on; aPtr and bPtr keep what they held when pop
\* finds the stack empty
RECURSIVE evaluateFrom(_, _, _, _, _)
evaluateFrom(post, k, evalStack, aPtr, bPtr) ==
    IF k > Len(post) THEN pop(evalStack, aPtr).headData[1]
    ELSE IF getType(post[k]) = Operand
    THEN evaluateFrom(post, k + 1,
                      push(evalStack, <<strtol(getData(post[k])).result>>), aPtr, bPtr)
    ELSE IF getType(post[k]) = Operator
    THEN LET popB == pop(evalStack, bPtr)
             popA == pop(popB.stack, aPtr)
             res  == computeRes(popA.headData[1], popB.headData[1], getData(post[k])[1])
         IN  evaluateFrom(post, k + 1, push(popA.stack, <<res>>),
                          popA.headData, popB.headData)
    ELSE evaluateFrom(post, k + 1, evalStack, aPtr, bPtr)

\* evaluateExp; ua and ub are what malloc left in aPtr and bPtr
evaluateExp(post, ua, ub) == evaluateFrom(post, 1, stackAlloc(1), <<ua>>, <<ub>>)

\* what an unwritten byte of a new block may hold
UninitChars == {NUL, "?", "*"}

\* what an unwritten int of a new block may hold
UninitInts == {0, 7}

\* free(toFree): defined for NULL and for a live block, undefined for a
\* pointer never assigned and for a block already freed
FreeOutcomes(pointer) ==
    IF pointer \in {"null", "live"} THEN {"returns"} ELSE {"returns", "abort"}

ExpChars == {"2", "3", "4", "+", "*", "-", "(", ")"}

MaxExpLen == 5

\* the token array is a valid infix expression: operands and operators
\* alternate, parentheses are balanced and enclose expressions
RECURSIVE ValidFrom(_, _, _, _)
ValidFrom(tokens, k, wantOperand, depth) ==
    IF k > Len(tokens) THEN ~wantOperand /\ depth = 0
    ELSE LET type == getType(tokens[k])
         IN  IF wantOperand
             THEN \/ type = Operand /\ ValidFrom(tokens, k + 1, FALSE, depth)
                  \/ type = Left_Parenthesis /\ ValidFrom(tokens, k + 1, TRUE, depth + 1)
             ELSE \/ type = Operator /\ ValidFrom(tokens, k + 1, TRUE, depth)
                  \/ type = Right_Parenthesis /\ depth > 0
                         /\ ValidFrom(tokens, k + 1, FALSE, depth - 1)

ValidInfix(tokens) == ValidFrom(tokens, 1, TRUE, 0)

\* entry to infixToPostfix with a valid expression; headData is a new block
InitCalc ==
    /\ MainIdle
    /\ ProteinIdle
    /\ DriverIdle
    /\ sequences = <<>>
    /\ m = 0
    /\ s = 0
    /\ g = 0
    /\ fresh = UninitStrings
    /\ pc = "convert"
    /\ \E n \in 1..MaxExpLen : \E exp \in ListsOf(ExpChars, n) :
          /\ ValidInfix(expToInfix(exp))
          /\ infix = expToInfix(exp)
    /\ inIdx = 0
    /\ postfix = <<>>
    /\ stack = stackAlloc(1)
    /\ \E h0 \in UninitChars, h1 \in UninitChars : headData = <<h0, h1>>
    /\ toFree = "uninit"
    /\ evaluation = NoValue
    /\ hist = <<>>

\* infixToPostfix, case Operand
ConvertOperand ==
    /\ pc = "convert"
    /\ inIdx < Len(infix)
    /\ getType(infix[inIdx + 1]) = Operand
    /\ postfix' = Append(postfix, cloneToken(infix[inIdx + 1]))
    /\ inIdx' = inIdx + 1
    /\ UNCHANGED <<infix, stack, headData, toFree, evaluation, hist>>
    /\ UNCHANGED <<driverData, mainData, proteinVars, pc, out, errs>>

\* infixToPostfix, case Left_Parenthesis
ConvertLeftParenthesis ==
    /\ pc = "convert"
    /\ inIdx < Len(infix)
    /\ getType(infix[inIdx + 1]) = Left_Parenthesis
    /\ stack' = push(stack, getData(infix[inIdx + 1]))
    /\ out' = Append(out, MEM_SEG_ERR)
    /\ inIdx' = inIdx + 1
    /\ UNCHANGED <<infix, postfix, headData, toFree, evaluation, hist>>
    /\ UNCHANGED <<driverData, mainData, proteinVars, pc, errs>>

\* infixToPostfix, case Right_Parenthesis: one test of the while condition and
\* the iteration that follows it
ConvertRightParenthesis ==
    /\ pc = "convert"
    /\ inIdx < Len(infix)
    /\ getType(infix[inIdx + 1]) = Right_Parenthesis
    /\ IF isEmptyStack(stack)
       THEN /\ inIdx' = inIdx + 1
            /\ UNCHANGED <<stack, headData, postfix, toFree>>
       ELSE \E u \in UninitChars :
               LET res == pop(stack, headData)
               IN  /\ stack' = res.stack
                   /\ headData' = res.headData
                   /\ IF IsLeftParenthesisString(peek(stack, u))
                      THEN /\ inIdx' = inIdx + 1
                           /\ toFree' = "live"
                           /\ UNCHANGED postfix
                      ELSE /\ postfix' = Append(postfix,
                                                initializeToken(res.headData, 1, Operator))
                           /\ toFree' = "freed"
                           /\ UNCHANGED inIdx
    /\ UNCHANGED <<infix, evaluation, hist>>
    /\ UNCHANGED <<driverData, mainData, proteinVars, pc, out, errs>>

\* infixToPostfix, case Operator
ConvertOperator ==
    /\ pc = "convert"
    /\ inIdx < Len(infix)
    /\ getType(infix[inIdx + 1]) = Operator
    /\ \E u \in UninitChars :
       \E outcome \in FreeOutcomes(IF isEmptyStack(stack) THEN toFree ELSE "live") :
          LET currData == getData(infix[inIdx + 1])
              st == IF isEmptyStack(stack) \/ IsLeftParenthesisString(peek(stack, u))
                    THEN [stack |-> stack, headData |-> headData, postfix |-> postfix]
                    ELSE popWhilePrecedes(
                             [stack |-> stack, headData |-> headData, postfix |-> postfix],
                             currData[1])
          IN  /\ stack' = push(st.stack, currData)
              /\ headData' = st.headData
              /\ postfix' = st.postfix
              /\ pc' = IF outcome = "abort" THEN "crashed" ELSE pc
    /\ out' = Append(out, MEM_SEG_ERR)
    /\ toFree' = "null"
    /\ inIdx' = inIdx + 1
    /\ UNCHANGED <<infix, evaluation, hist>>
    /\ UNCHANGED <<driverData, mainData, proteinVars, errs>>

\* infixToPostfix after the for loop, up to its return
DrainStack ==
    /\ pc = "convert"
    /\ inIdx = Len(infix)
    /\ LET st == popAll([stack |-> stack, headData |-> headData, postfix |-> postfix])
       IN  /\ stack' = st.stack
           /\ headData' = st.headData
           /\ postfix' = st.postfix
    /\ pc' = "evaluate"
    /\ UNCHANGED <<infix, inIdx, toFree, evaluation, hist>>
    /\ UNCHANGED <<driverData, mainData, proteinVars, out, errs>>

\* main's call of evaluateExp on the array infixToPostfix returned
EvaluateExp ==
    /\ pc = "evaluate"
    /\ \E ua \in UninitInts, ub \in UninitInts :
          evaluation' = evaluateExp(postfix, ua, ub)
    /\ pc' = "evaluated"
    /\ UNCHANGED <<infix, inIdx, postfix, stack, headData, toFree, hist>>
    /\ UNCHANGED <<driverData, mainData, proteinVars, out, errs>>

NextCalc ==
    \/ ConvertOperand
    \/ ConvertLeftParenthesis
    \/ ConvertRightParenthesis
    \/ ConvertOperator
    \/ DrainStack
    \/ EvaluateExp

SpecCalc == InitCalc /\ [][NextCalc]_vars

-----------------------------------------------------------------------------
(* AnalyzeProtein of ex1: main and readPDBFile *)

EXIT_SUCCESS == 0

MIN_CHARS_IN_ATOM_LINE == 60

PROTEIN_USAGE_ERR == "Usage: AnalyzeProtein <pdb1> <pdb2> ..."

OPEN_FILE_ERR == "Error opening file"

NO_ATOMS_ERR == "Error - 0 atoms were found in the file"

LINE_LENGTH_ERR == "ATOM line is too short"

\* a line of a file: whether it starts with "ATOM  ", and its strlen
Line(atom, len) == [atom |-> atom, len |-> len]

\* readPDBFile from atomCount atoms on: the number of atoms read, or the
\* length of the first ATOM line that is too short
RECURSIVE readPDBFile(_, _)
readPDBFile(fileLines, atomCount) ==
    IF fileLines = <<>> THEN [atomCount |-> atomCount, tooShort |-> FALSE, len |-> 0]
    ELSE LET res == Head(fileLines)
         IN  IF res.atom
             THEN IF res.len <= MIN_CHARS_IN_ATOM_LINE
                  THEN [atomCount |-> atomCount, tooShort |-> TRUE, len |-> res.len]
                  ELSE readPDBFile(Tail(fileLines), atomCount + 1)
             ELSE readPDBFile(Tail(fileLines), atomCount)

\* the files an argument may name: [opens, lines]
PdbFiles ==
    {[opens |-> FALSE, lines |-> <<>>],
     [opens |-> TRUE, lines |-> <<Line(FALSE, 20)>>],
     [opens |-> TRUE, lines |-> <<Line(TRUE, 30)>>],
     [opens |-> TRUE, lines |-> <<Line(TRUE, 79)>>],
     [opens |-> TRUE, lines |-> <<Line(FALSE, 20), Line(TRUE, 79), Line(TRUE, 61)>>]}

MaxFiles == 3

InitProtein ==
    /\ MainIdle
    /\ CalcIdle
    /\ DriverIdle
    /\ sequences = <<>>
    /\ m = 0
    /\ s = 0
    /\ g = 0
    /\ fresh = UninitStrings
    /\ pc = "protein"
    /\ \E n \in 0..MaxFiles : pdbFiles \in ListsOf(PdbFiles, n)
    /\ fileIdx = 1

\* the body of main's loop for argv[i]: every path through it ends the process
ProteinFile ==
    /\ pc = "protein"
    /\ fileIdx < Len(pdbFiles) + 1
    /\ LET file == pdbFiles[fileIdx]
           read == readPDBFile(file.lines, 0)
       IN  IF file.opens /\ ~read.tooShort /\ read.atomCount # 0
           THEN /\ out' = Append(out, [kind |-> "analysis", file |-> fileIdx,
                                       atoms |-> read.atomCount])
                /\ exitCode' = EXIT_SUCCESS
                /\ UNCHANGED errs
           ELSE /\ errs' = Append(errs, IF ~file.opens THEN OPEN_FILE_ERR
                                        ELSE IF read.tooShort THEN LINE_LENGTH_ERR
                                        ELSE NO_ATOMS_ERR)
                /\ exitCode' = EXIT_FAILURE
                /\ UNCHANGED out
    /\ pc' = "exited"
    /\ UNCHANGED <<argc, argv, fileOpens, lines, toStart, seqNum, isInteger>>
    /\ UNCHANGED <<driverData, calcVars, pdbFiles, fileIdx>>

\* main with no file argument
ProteinUsage ==
    /\ pc = "protein"
    /\ ~(Len(pdbFiles) + 1 > 1)
    /\ errs' = Append(errs, PROTEIN_USAGE_ERR)
    /\ exitCode' = EXIT_FAILURE
    /\ pc' = "exited"
    /\ UNCHANGED <<argc, argv, fileOpens, lines, toStart, seqNum, isInteger, out>>
    /\ UNCHANGED <<driverData, calcVars, proteinVars>>

NextProtein == ProteinFile \/ ProteinUsage

SpecProtein == InitProtein /\ [][NextProtein]_vars

SpecDriver == InitDriver /\ [][Next]_vars

-----------------------------------------------------------------------------
(* Vocabulary of the properties *)

\* every global alignment of A with B, as a sequence of columns <<a, b>>:
\* a symbol of A over a symbol of B, a symbol of A over a gap, or a gap over a
\* symbol of B, using up A and B from left to right
RECURSIVE GlobalAlignments(_, _)
GlobalAlignments(A, B) ==
    IF A = <<>> /\ B = <<>> THEN {<<>>}
    ELSE (IF A # <<>> /\ B # <<>>
          THEN {<<<<Head(A), Head(B)>>>> \o x : x \in GlobalAlignments(Tail(A), Tail(B))}
          ELSE {})
         \cup (IF A # <<>>
               THEN {<<<<Head(A), SPACE_CHAR>>>> \o x : x \in GlobalAlignments(Tail(A), B)}
               ELSE {})
         \cup (IF B # <<>>
               THEN {<<<<SPACE_CHAR, Head(B)>>>> \o x : x \in GlobalAlignments(A, Tail(B))}
               ELSE {})

\* M for a column of equal symbols, S for two different symbols, G for a gap
ColumnScore(col, M, S, G) ==
    IF col[1] = SPACE_CHAR \/ col[2] = SPACE_CHAR THEN G
    ELSE IF col[1] = col[2] THEN M
    ELSE S

RECURSIVE ColumnsScore(_, _, _, _)
ColumnsScore(cols, M, S, G) ==
    IF cols = <<>> THEN 0
    ELSE ColumnScore(Head(cols), M, S, G) + ColumnsScore(Tail(cols), M, S, G)

\* the best score of a global alignment of A with B
OptimalScore(A, B, M, S, G) ==
    LET scores == {ColumnsScore(x, M, S, G) : x \in GlobalAlignments(A, B)}
    IN  CHOOSE best \in scores : \A other \in scores : other <= best

\* the first line of a text (up to its first newline, or all of it)
RECURSIVE FirstLine(_)
FirstLine(text) ==
    IF text = <<>> \/ Head(text) = NEW_LINE THEN <<>>
    ELSE <<Head(text)>> \o FirstLine(Tail(text))

\* the two aligned strings of an alignment text <line1>\n<line2>\n
AlignedFirst(text) == FirstLine(text)

AlignedSecond(text) ==
    IF Len(text) <= Len(FirstLine(text)) THEN <<>>
    ELSE FirstLine(SubSeq(text, Len(FirstLine(text)) + 2, Len(text)))

\* a string without its gap characters
WithoutGaps(str) == SelectSeq(str, LAMBDA ch : ch # SPACE_CHAR)

\* the columns of two aligned strings, up to the shorter one
ColumnsOf(a, b) ==
    [k \in 1..(IF Len(a) < Len(b) THEN Len(a) ELSE Len(b)) |-> <<a[k], b[k]>>]

\* the values, and the score of the table, of the pair compared by call k
ValueA(k) == getSeqVal(calls[k][1])

ValueB(k) == getSeqVal(calls[k][2])

\* the table of the current call is complete
Filled == pc \in {"score", "trace"}

LastCell == <<getSeqLen(seq1), getSeqLen(seq2)>>

\* the scores that printScore has written, by call
ScoreLines == {k \in 1..Len(out) : out[k].kind = "score"}

\* C1: the score that compareSequences reports for A and B (table[m][n] after
\* fillTable) is the maximum, over all global alignments of A with B, of the
\* sum of M per column of equal symbols, S per column of different symbols and
\* G per gap column.
C1_ScoreIsOptimal ==
    /\ Filled => getScore(table[LastCell])
                    = OptimalScore(getSeqVal(seq1), getSeqVal(seq2), m, s, g)
    /\ \A k \in ScoreLines :
          out[k].score = OptimalScore(ValueA(out[k].pair), ValueB(out[k].pair), m, s, g)

\* a reported score whose optimum needs a gap and beats the gap-free diagonal
C1_Witness ==
    /\ pc = "trace"
    /\ getSeqLen(seq1) = 2
    /\ getSeqLen(seq2) = 2
    /\ getSeqVal(seq1) # getSeqVal(seq2)
    /\ out[Len(out)].kind = "score"
    /\ out[Len(out)].score = getScore(table[LastCell])
    /\ out[Len(out)].score > ColumnsScore(ColumnsOf(getSeqVal(seq1), getSeqVal(seq2)), m, s, g)

\* the interior cells written so far
InteriorCells == {p \in DOMAIN table : p[1] >= 1 /\ p[2] >= 1}

\* the three candidates of the recurrence at an interior cell p, from the
\* neighbours' scores and the two symbols A[p[1]-1], B[p[2]-1] of the C strings
DiagonalCandidate(p) ==
    table[<<p[1] - 1, p[2] - 1>>].score
        + (IF getSeqVal(seq1)[p[1]] = getSeqVal(seq2)[p[2]] THEN m ELSE s)

FromLeftCandidate(p) == table[<<p[1], p[2] - 1>>].score + g

FromAboveCandidate(p) == table[<<p[1] - 1, p[2]>>].score + g

Maximum(S) == CHOOSE x \in S : \A y \in S : y <= x

CandidateMax(p) ==
    Maximum({DiagonalCandidate(p), FromLeftCandidate(p), FromAboveCandidate(p)})

\* C5: setCell records, for every interior cell, the origin Diagonal whenever
\* the maximum equals the diagonal candidate, otherwise FromLeft whenever it
\* equals the from-left candidate, otherwise FromAbove (ties: D, then L, then A).
C5_TieOrder ==
    \A p \in InteriorCells :
        IF CandidateMax(p) = DiagonalCandidate(p)
        THEN /\ table[p].sourceChar = "D"
             /\ table[p].sourceCell = <<p[1] - 1, p[2] - 1>>
        ELSE IF CandidateMax(p) = FromLeftCandidate(p)
        THEN /\ table[p].sourceChar = "L"
             /\ table[p].sourceCell = <<p[1], p[2] - 1>>
        ELSE /\ table[p].sourceChar = "A"
             /\ table[p].sourceCell = <<p[1] - 1, p[2]>>

\* a table with a tie of FromLeft and FromAbove above Diagonal (FromLeft
\* recorded), and a tie of Diagonal and FromLeft (Diagonal recorded)
C5_Witness ==
    /\ \E p \in InteriorCells :
          /\ FromLeftCandidate(p) = FromAboveCandidate(p)
          /\ FromLeftCandidate(p) > DiagonalCandidate(p)
          /\ table[p].sourceChar = "L"
    /\ \E p \in InteriorCells :
          /\ DiagonalCandidate(p) = FromLeftCandidate(p)
          /\ DiagonalCandidate(p) > FromAboveCandidate(p)
          /\ table[p].sourceChar = "D"

\* the pairs (I, J), I before J, of the list
PairsInOrder == {p \in (1..Len(sequences)) \X (1..Len(sequences)) : p[1] < p[2]}

\* p comes before q in the order of an outer loop over the list and an inner
\* loop over the later elements
Before(p, q) == p[1] < q[1] \/ (p[1] = q[1] /\ p[2] < q[2])

\* C7: calAndPrintScores calls compareSequences once for every pair (seqI,
\* seqJ) with I before J in the list, never for a reversed or repeated pair nor
\* for a sequence with itself, in the order of an outer loop over the list and
\* an inner loop over the later sequences: n(n-1)/2 calls when it returns.
C7_EveryPairOnceInOrder ==
    /\ \A k \in 1..Len(calls) : calls[k] \in PairsInOrder
    /\ \A k \in 1..(Len(calls) - 1) : Before(calls[k], calls[k + 1])
    /\ \A k \in 1..Len(calls) : \A p \in PairsInOrder :
          Before(p, calls[k]) => \E l \in 1..(k - 1) : calls[l] = p
    /\ pc \in {"print", "done"} =>
          /\ 2 * Len(calls) = Len(sequences) * (Len(sequences) - 1)
          /\ {calls[k] : k \in 1..Len(calls)} = PairsInOrder

\* calAndPrintScores has returned for a list of three sequences
C7_Witness ==
    /\ pc = "done"
    /\ Len(sequences) = 3
    /\ calls = <<(<<1, 2>>), (<<1, 3>>), (<<2, 3>>)>>

\* C8: the output is written pair by pair: the score line of a pair is
\* followed by the alignment of that same pair before any output of the next
\* pair (stated of the output so far: every score line that is not the last
\* element is followed by its own pair's alignment, and every alignment
\* directly follows its own pair's score line).
C8_OutputPerPair ==
    /\ \A k \in 1..(Len(out) - 1) :
          out[k].kind = "score" =>
              out[k + 1].kind = "alignment" /\ out[k + 1].pair = out[k].pair
    /\ \A k \in 1..Len(out) :
          out[k].kind = "alignment" =>
              k > 1 /\ out[k - 1].kind = "score" /\ out[k - 1].pair = out[k].pair

\* C9: the score computed for (A, B) equals the score computed for (B, A).
C9_ScoreSymmetric ==
    /\ Filled =>
          getScore(table[LastCell])
              = getScore(fillTable(getSeqVal(seq2), getSeqVal(seq1), m, s, g)
                            [<<getSeqLen(seq2), getSeqLen(seq1)>>])
    /\ \A k \in ScoreLines :
          out[k].score
              = getScore(fillTable(ValueB(out[k].pair), ValueA(out[k].pair), m, s, g)
                            [<<Len(ValueB(out[k].pair)), Len(ValueA(out[k].pair))>>])

\* a score printed for two sequences of different lengths and symbols, with
\* mismatch and gap different
C9_Witness ==
    /\ pc = "trace"
    /\ getSeqLen(seq1) # getSeqLen(seq2)
    /\ getSeqVal(seq1)[1] # getSeqVal(seq2)[1]
    /\ s # g
    /\ out[Len(out)].score = getScore(table[LastCell])

\* the alignments calAlignment has returned, by call
Returned == 1..Len(alignments)

\* the score printed for call k
PrintedScore(k) == out[CHOOSE l \in ScoreLines : out[l].pair = k].score

\* C2: removing every gap character from the first string returned by
\* calAlignment gives exactly A, and from the second string exactly B.
C2_GapsRemovedGiveInputs ==
    \A k \in Returned :
        /\ WithoutGaps(AlignedFirst(alignments[k])) = ValueA(k)
        /\ WithoutGaps(AlignedSecond(alignments[k])) = ValueB(k)

\* C3: the two strings reconstructed by calAlignment are an alignment whose
\* column sum (M equal symbols, S different symbols, G a gap) is the score
\* table[m][n] that was reported for the pair.
C3_AlignmentHasReportedScore ==
    \A k \in Returned :
        /\ Len(AlignedFirst(alignments[k])) = Len(AlignedSecond(alignments[k]))
        /\ ColumnsScore(ColumnsOf(AlignedFirst(alignments[k]),
                                  AlignedSecond(alignments[k])), m, s, g)
              = PrintedScore(k)

\* C4: the two aligned strings produced by calAlignment have the same length.
C4_EqualLength ==
    \A k \in Returned :
        Len(AlignedFirst(alignments[k])) = Len(AlignedSecond(alignments[k]))

\* C6: aligning AA with A under M=2, S=-1, G=-2 gives score 0 and the
\* alignment AA over -A.
C6_ExampleAlignment ==
    \A k \in Returned :
        (/\ ValueA(k) = <<"A", "A">>
         /\ ValueB(k) = <<"A">>
         /\ m = 2
         /\ s = -1
         /\ g = -2)
        => /\ PrintedScore(k) = 0
           /\ alignments[k] = <<"A", "A", NEW_LINE, SPACE_CHAR, "A", NEW_LINE>>

\* C10: with match > mismatch and match > 2*gap, aligning A with itself gives
\* score len(A)*match and an alignment whose two strings both equal A.
C10_SelfAlignment ==
    \A k \in Returned :
        (ValueA(k) = ValueB(k) /\ m > s /\ m > 2 * g)
        => /\ PrintedScore(k) = Len(ValueA(k)) * m
           /\ AlignedFirst(alignments[k]) = ValueA(k)
           /\ AlignedSecond(alignments[k]) = ValueA(k)

\* the score and the alignment of a run of compareSequences on (A, B, M, S, G)
\* in which every new block happens to be zero-filled
ZeroedRun(A, B, M, S, G) ==
    LET tbl == fillTable(A, B, M, S, G)
    IN  [score     |-> getScore(tbl[<<Len(A), Len(B)>>]),
         alignment |-> calAlignment(A, B, tbl, <<>>, <<>>)]

\* C11: two runs of compareSequences on the same (A, B, M, S, G) give the same
\* score and the same alignment string whatever new memory holds: every run
\* gives what the run with zero-filled blocks gives.
C11_SameResultAsAnyOtherRun ==
    \A k \in Returned :
        /\ PrintedScore(k) = ZeroedRun(ValueA(k), ValueB(k), m, s, g).score
        /\ alignments[k] = ZeroedRun(ValueA(k), ValueB(k), m, s, g).alignment

\* the pair of call k is the documented scenario GCATGCU, GATTACA, 1, -1, -1
IsScenario(k) ==
    /\ ValueA(k) = <<"G", "C", "A", "T", "G", "C", "U">>
    /\ ValueB(k) = <<"G", "A", "T", "T", "A", "C", "A">>
    /\ m = 1
    /\ s = -1
    /\ g = -1

\* C12: aligning GCATGCU with GATTACA under M=1, S=-1, G=-1 reports score 0.
C12_ScenarioScore ==
    \A k \in ScoreLines : IsScenario(out[k].pair) => out[k].score = 0

\* the score of the scenario has been printed from the filled 8 x 8 table
C12_Witness ==
    /\ pc = "trace"
    /\ IsScenario(Len(calls))
    /\ DOMAIN table = (0..7) \X (0..7)
    /\ out[Len(out)].kind = "score"
    /\ out[Len(out)].score = getScore(table[<<7, 7>>])

\* the score of the written cell p was computed without leaving the range of int
ComputedInRange(p) ==
    LET A == getSeqVal(seq1)
        B == getSeqVal(seq2)
    IN  IF p[1] = 0 THEN ~MulOverflows(p[2], g)
        ELSE IF p[2] = 0 THEN ~MulOverflows(p[1], g)
        ELSE ~setCellOverflows(table, p[1], p[2], A, B, m, s, g)

\* C14: no cell of the table holds a value whose computation left the range of
\* int: such a computation stops with an overflow error instead of storing.
C14_NoWrappedCell ==
    \A p \in DOMAIN table : ComputedInRange(p)

\* C15: a failed allocation of the table or of an output buffer is never
\* written through: the pair's computation stops and the driver gets an error.
C15_FailedAllocationNotWritten ==
    pc # "nullWrite"

\* parseSeqFile has returned
ParseFinished ==
    \/ pc = "parse" /\ lines = <<>>
    \/ pc = "call"
    \/ pc = "exited" /\ argc = 5 /\ fileOpens /\ isInteger # 0

\* C13: after parseSeqFile, every sequence that has a value has
\* seqLen = strlen(seqVal), whatever malloc left in the new Sequence.
C13_SeqLenIsStrlen ==
    ParseFinished =>
        \A k \in 1..Len(sequences) :
            sequences[k].seqVal # NoBlock => sequences[k].seqLen = Len(sequences[k].seqVal)

\* C16: with fewer than two sequences parsed, calAndPrintScores is never
\* called: main prints the sequence-number error and exits with EXIT_FAILURE.
C16_FewerThanTwoIsAnError ==
    /\ pc = "call" => seqNum >= 2 /\ Len(sequences) >= 2 /\ exitCode = Running
    /\ (pc = "exited" /\ ParseFinished /\ seqNum < 2) =>
           /\ errs = <<SEQ_NUM_ERR_MSG>>
           /\ exitCode = EXIT_FAILURE
           /\ out = <<>>

\* a file with one sequence was parsed and main has ended with the error
C16_Witness ==
    /\ pc = "exited"
    /\ ParseFinished
    /\ seqNum = 1
    /\ Len(sequences) = 1
    /\ errs = <<SEQ_NUM_ERR_MSG>>
    /\ exitCode = EXIT_FAILURE

\* the string is an optional sign followed by one or more decimal digits
RepresentsInt(str) ==
    LET digitsOn == IF str # <<>> /\ Head(str) \in {"+", "-"} THEN Tail(str) ELSE str
    IN  /\ digitsOn # <<>>
        /\ \A k \in 1..Len(digitsOn) : digitsOn[k] \in Digits

\* C17: an argument that is no int clears isInteger, and main then prints the
\* usage message and exits with EXIT_FAILURE without aligning; three ints
\* leave isInteger 1.
C17_NonIntArgumentRejected ==
    (pc # "main" /\ argc = 5 /\ fileOpens) =>
        IF \A k \in 1..3 : RepresentsInt(argv[k])
        THEN isInteger = 1
        ELSE /\ isInteger = 0
             /\ pc = "exited"
             /\ errs = <<USAGE_ERR_MSG>>
             /\ exitCode = EXIT_FAILURE
             /\ out = <<>>

\* the elements pushed and not yet popped after the calls of h, oldest first
RECURSIVE Live(_)
Live(h) ==
    IF h = <<>> THEN <<>>
    ELSE LET before == Live(SubSeq(h, 1, Len(h) - 1))
             last   == h[Len(h)]
         IN  IF last.op = "push"
             THEN IF last.done THEN Append(before, last.data) ELSE before
             ELSE IF before = <<>> THEN before
             ELSE SubSeq(before, 1, Len(before) - 1)

\* the elements of the stack, bottom first
RECURSIVE BottomUp(_)
BottomUp(top) == IF top = <<>> THEN <<>> ELSE Append(BottomUp(Tail(top)), Head(top))

\* C20: pop on an empty stack only reports the error, headData and the stack
\* stay as they were; pop on a non-empty stack copies the most recently pushed,
\* not yet popped element into headData and removes exactly that element.
C20_PopTakesTheMostRecent ==
    [][(Len(hist') = Len(hist) + 1 /\ hist'[Len(hist')].op = "pop") =>
          IF Live(hist) = <<>>
          THEN /\ headData' = headData
               /\ stack' = stack
               /\ isEmptyStack(stack')
               /\ errs' = Append(errs, STACK_EMPTY_MSG)
          ELSE /\ headData' = Live(hist)[Len(Live(hist))]
               /\ BottomUp(stack'.top) = SubSeq(Live(hist), 1, Len(Live(hist)) - 1)
               /\ errs' = errs]_vars

\* a pop has found the stack empty, and a later pop has taken the upper of two elements
C20_Witness ==
    /\ pc = "stack"
    /\ \E k \in 1..Len(hist) : hist[k].op = "pop" /\ ~hist[k].done
    /\ hist # <<>>
    /\ hist[Len(hist)].op = "pop"
    /\ hist[Len(hist)].done
    /\ Len(stack.top) = 1
    /\ headData # stack.top[1]

\* how tightly an operator binds: ^ above * and /, above + and -
Binds(op) ==
    IF op = "^" THEN 3 ELSE IF op \in {"*", "/"} THEN 2 ELSE 1

\* the nesting depth of position k of a token array
DepthAt(tokens, k) ==
    Cardinality({n \in 1..(k - 1) : getType(tokens[n]) = Left_Parenthesis})
        - Cardinality({n \in 1..(k - 1) : getType(tokens[n]) = Right_Parenthesis})

\* the value of a valid infix token array: the operator applied last is the
\* rightmost of the loosest operators outside all parentheses
RECURSIVE InfixValue(_)
InfixValue(tokens) ==
    LET outer == {k \in 1..Len(tokens) :
                     getType(tokens[k]) = Operator /\ DepthAt(tokens, k) = 0}
    IN  IF outer = {}
        THEN IF Len(tokens) = 1 THEN DigitsValue(getData(tokens[1]), 0)
             ELSE InfixValue(SubSeq(tokens, 2, Len(tokens) - 1))
        ELSE LET loosest == {k \in outer : \A n \in outer :
                                 Binds(getData(tokens[k])[1]) <= Binds(getData(tokens[n])[1])}
                 at == CHOOSE k \in loosest : \A n \in loosest : n <= k
                 a  == InfixValue(SubSeq(tokens, 1, at - 1))
                 b  == InfixValue(SubSeq(tokens, at + 1, Len(tokens)))
                 op == getData(tokens[at])[1]
             IN  IF op = "+" THEN a + b ELSE IF op = "-" THEN a - b ELSE a * b

IsOperandToken(token) == getType(token) = Operand

\* C18: the array infixToPostfix returns has no parenthesis, keeps the operands
\* in their order, and evaluateExp of it is the value of the infix expression,
\* whatever headData held at the start.
C18_PostfixHasTheInfixValue ==
    /\ pc \in {"evaluate", "evaluated"} =>
           /\ \A k \in 1..Len(postfix) : getData(postfix[k]) \notin {<<"(">>, <<")">>}
           /\ SelectSeq(postfix, IsOperandToken) = SelectSeq(infix, IsOperandToken)
    /\ pc = "evaluated" => evaluation = InfixValue(infix)

\* the file opens and holds at least one atom (and no ATOM line too short to read)
Analysable(file) ==
    /\ file.opens
    /\ \E k \in 1..Len(file.lines) : file.lines[k].atom
    /\ \A k \in 1..Len(file.lines) :
           file.lines[k].atom => file.lines[k].len > MIN_CHARS_IN_ATOM_LINE

\* C19: with k >= 1 files that all open and hold an atom, the analysis block of
\* each of the k files is printed, in argument order, and the exit status is 0.
C19_EveryFileAnalysed ==
    (/\ pc = "exited"
     /\ pdbFiles # <<>>
     /\ \A k \in 1..Len(pdbFiles) : Analysable(pdbFiles[k])) =>
        /\ Len(out) = Len(pdbFiles)
        /\ \A k \in 1..Len(out) : out[k].kind = "analysis" /\ out[k].file = k
        /\ exitCode = EXIT_SUCCESS

\* all the cells of the table of the current call
AllCells == (0..getSeqLen(seq1)) \X (0..getSeqLen(seq2))

\* C21: after fillTable every interior cell (i,j) has score
\* max(diagonal, fromAbove, fromLeft), with diagonal = table[i-1][j-1].score +
\* (M if A[i-1] = B[j-1] else S), fromAbove = table[i-1][j].score + G and
\* fromLeft = table[i][j-1].score + G.
C21_InteriorScoreIsMaximum ==
    Filled =>
        /\ DOMAIN table = AllCells
        /\ \A p \in AllCells :
               (p[1] >= 1 /\ p[2] >= 1) =>
                   /\ table[p].score >= DiagonalCandidate(p)
                   /\ table[p].score >= FromAboveCandidate(p)
                   /\ table[p].score >= FromLeftCandidate(p)
                   /\ table[p].score \in {DiagonalCandidate(p), FromAboveCandidate(p),
                                          FromLeftCandidate(p)}

\* a filled 3 x 3 table with a cell whose three candidates differ and whose
\* score is not the diagonal one
C21_Witness ==
    /\ pc = "score"
    /\ DOMAIN table = (0..2) \X (0..2)
    /\ \E p \in InteriorCells :
          /\ DiagonalCandidate(p) # FromAboveCandidate(p)
          /\ FromAboveCandidate(p) # FromLeftCandidate(p)
          /\ DiagonalCandidate(p) # FromLeftCandidate(p)
          /\ table[p].score > DiagonalCandidate(p)

\* the table has been through initializeTable
Initialized == pc \in {"fill", "score", "trace"}

\* C22: after initializeTable table[0][0].score = 0, table[i][0].score = i*G
\* and table[0][j].score = j*G, and the rest of fillTable leaves them so.
C22_BorderScores ==
    Initialized =>
        /\ table[<<0, 0>>].score = 0
        /\ \A row \in 1..getSeqLen(seq1) : table[<<row, 0>>].score = row * g
        /\ \A col \in 1..getSeqLen(seq2) : table[<<0, col>>].score = col * g

\* fillTable has finished on a table with two border cells each way and G not 0
C22_Witness ==
    /\ pc = "score"
    /\ getSeqLen(seq1) = 2
    /\ getSeqLen(seq2) = 2
    /\ g # 0
    /\ table[<<2, 0>>].score = 2 * g
    /\ table[<<0, 2>>].score = 2 * g
    /\ <<2, 2>> \in DOMAIN table

\* C23: after fillTable only table[0][0] has no origin: a first-column cell
\* (i,0) has origin FromAbove with source (i-1,0), a first-row cell (0,j) has
\* origin FromLeft with source (0,j-1), an interior cell has one origin.
C23_OnlyFirstCellWithoutOrigin ==
    Filled =>
        /\ table[<<0, 0>>].sourceCell = NullCell
        /\ \A row \in 1..getSeqLen(seq1) :
               /\ table[<<row, 0>>].sourceChar = "A"
               /\ table[<<row, 0>>].sourceCell = <<row - 1, 0>>
        /\ \A col \in 1..getSeqLen(seq2) :
               /\ table[<<0, col>>].sourceChar = "L"
               /\ table[<<0, col>>].sourceCell = <<0, col - 1>>
        /\ \A p \in InteriorCells :
               /\ table[p].sourceChar \in {"D", "L", "A"}
               /\ table[p].sourceCell # NullCell

\* C24: the walk of calAlignment from cell (m,n) along the origin links ends,
\* and the cell it ends at is (0,0), never another cell.
C24_WalkEndsAtFirstCell ==
    [][(pc = "trace" /\ currCell # NullCell /\ currCell' = NullCell) =>
          currCell = <<0, 0>>]_vars

\* a step of the walk: calAlignment's loop body has run at currCell
WalkStep == pc = "trace" /\ currCell # NullCell /\ pc' = "trace"

\* C25: a step at cell (i,j) follows the origin: Diagonal prepends A[i-1] and
\* B[j-1] and moves to (i-1,j-1); FromLeft prepends '-' and B[j-1] and moves to
\* (i,j-1); FromAbove prepends A[i-1] and '-' and moves to (i-1,j).
C25_StepFollowsOrigin ==
    [][WalkStep =>
          LET row == currCell[1]
              col == currCell[2]
              A   == getSeqVal(seq1)
              B   == getSeqVal(seq2)
              origin == table[currCell].sourceChar
          IN  /\ origin = "D" =>
                     /\ seq1Add' = <<A[row]>> \o seq1Add
                     /\ seq2Add' = <<B[col]>> \o seq2Add
                     /\ currCell' = <<row - 1, col - 1>>
              /\ origin = "L" =>
                     /\ seq1Add' = <<"-">> \o seq1Add
                     /\ seq2Add' = <<B[col]>> \o seq2Add
                     /\ currCell' = <<row, col - 1>>
              /\ origin = "A" =>
                     /\ seq1Add' = <<A[row]>> \o seq1Add
                     /\ seq2Add' = <<"-">> \o seq2Add
                     /\ currCell' = <<row - 1, col>>]_vars

\* a walk has taken a step of each of the three kinds
C25_Witness ==
    /\ pc = "trace"
    /\ Len(seq1Add) >= 3
    /\ \E k \in 1..Len(seq1Add) : seq1Add[k] = "-"
    /\ \E k \in 1..Len(seq2Add) : seq2Add[k] = "-"
    /\ \E k \in 1..Len(seq1Add) : seq1Add[k] # "-" /\ seq2Add[k] # "-"

\* C28: when the walk is at a cell (r,c) where analyzeSourceChar reads
\* seq1Val[*i] or seq2Val[*j], i = r-1 and j = c-1 with 0 <= i < len(A) and
\* 0 <= j < len(B); an index that was decremented below 0 is not read with.
C28_ReadIndicesInRange ==
    (/\ pc = "trace"
     /\ currCell # NullCell
     /\ table[currCell].sourceChar \in {"D", "L", "A"}) =>
        /\ i = currCell[1] - 1
        /\ j = currCell[2] - 1
        /\ 0 <= i
        /\ i < Len(getSeqVal(seq1))
        /\ 0 <= j
        /\ j < Len(getSeqVal(seq2))

\* the walk is about to read with both indices at 0 after an earlier step
C28_Witness ==
    /\ pc = "trace"
    /\ currCell = <<1, 1>>
    /\ table[currCell].sourceChar = "D"
    /\ i = 0
    /\ j = 0
    /\ seq1Add # <<>>

\* C27: every block seq1Final, seq2Final gets a first character and a
\* terminator before strcat, so a returned alignment consists of symbols of A,
\* symbols of B, '-' and the two newlines only.
C27_AlignmentFromInputsOnly ==
    \A k \in Returned :
        \A n \in 1..Len(alignments[k]) :
            \/ alignments[k][n] \in {SPACE_CHAR, NEW_LINE}
            \/ \E q \in 1..Len(ValueA(k)) : alignments[k][n] = ValueA(k)[q]
            \/ \E q \in 1..Len(ValueB(k)) : alignments[k][n] = ValueB(k)[q]

\* C26: every write alignments[idx] is inside the block realloc returned, so
\* all the alignments are stored and the run gets to print them.
C26_WritesInsideTheBlock ==
    /\ pc # "crashed"
    /\ Len(alignments) <= AllocSlots

\* C29: setSeqVal never writes beyond the block of seqVal: the characters of
\* all the lines of a record's value, and the terminator, fit the block.
C29_ValueFitsItsBlock ==
    \A k \in 1..Len(sequences) :
        sequences[k].seqVal # NoBlock =>
            Len(sequences[k].seqVal) + 1 <= sequences[k].allocated

\* C30: push prints MEM_SEG_ERR only when an allocation failed: the messages
\* printed are as many as the pushes that failed, and a push that succeeded
\* left its element on top.
C30_MessageOnlyOnFailure ==
    Len(out) = Cardinality({k \in 1..Len(hist) : hist[k].op = "push" /\ ~hist[k].done})

=============================================================================
